---- MODULE Spec2Model ----
(***************************************************************************)
(* Model of the capture session controller of                              *)
(* src/src/Components/RecordButton.tsx (the RecordButton component).       *)
(*                                                                         *)
(* Every call of startRecording is a session, numbered 1, 2, ... in call   *)
(* order.  The objects a session creates (its MediaStream, MediaRecorder,  *)
(* AudioContext and interval timer) are identified by the session number;  *)
(* a ref holds the number of the object it points to, or 0 for null.       *)
(* JavaScript is single-threaded: every handler runs to completion, so     *)
(* each action below is one whole handler (or the whole continuation of    *)
(* startRecording after its await).                                        *)
(***************************************************************************)
EXTENDS Integers, Sequences, FiniteSets, TLC

\* ---- bounds of the model -------------------------------------------------
MaxSessions == 2
MaxTicks == 1
MaxChunks == 1
MaxFaults == 1
SlowTickMs == 2000
\* of the runs of one recording session with the detector attached
VadTicks == 140
ShortSilenceMs == 50
LongSilenceMs == 3000
\* bytes of the chunks of the first recorder in the runs without the detector
ChunkUnit == 10

\* ---- program constants ---------------------------------------------------
minRecordingMs == 1500
fftSize == 512
\* the interval period 1000 / 45, in whole milliseconds
TickMs == 22
\* silenceThreshold = 0.025 and speechThreshold = 0.04, in thousandths
silenceThreshold == 25
speechThreshold == 40
\* App: vadSilenceSeconds={5}, in milliseconds
AppSilenceMs == 5000

Sessions == 1..MaxSessions
States == {"idle", "recording", "finalizing", "completed", "error"}
\* sizes event.data.size can take in ondataavailable
ChunkSizes == {0, 10}
\* deviation from 128 of the samples read by getByteTimeDomainData
Amplitudes == {1, 4, 6}
\* time between two runs of the interval callback: the nominal period, or
\* a throttled timer
Delays == {TickMs, SlowTickMs}
\* vadSilenceSeconds, in milliseconds
SilenceMsChoices == {10}
\* vadSilenceSeconds in the runs of one session: reached long before, and
\* only after, minRecordingMs
VadSilenceMsChoices == {ShortSilenceMs, LongSilenceMs}

VARIABLES
    state,             \* useState: the component's state
    mediaRecorderRef,  \* useRef: session of the current MediaRecorder, 0 = null
    audioChunksRef,    \* useRef: sequence of buffered chunk sizes
    streamRef,         \* useRef: session of the current MediaStream, 0 = null
    vadIntervalRef,    \* useRef: session of the current interval, 0 = null
    audioContextRef,   \* useRef: session of the current AudioContext, 0 = null
    isSupported,       \* window.MediaRecorder && navigator.mediaDevices
    useVad,            \* prop
    vadSilenceMs,      \* prop vadSilenceSeconds, in milliseconds
    disposed,          \* the component has been unmounted
    nStarts,           \* number of startRecording calls so far
    acq,               \* per session: the getUserMedia promise
    trackLive,         \* per session: the stream's track has readyState live
    rec,               \* per session: MediaRecorder.state, "none" before construction
    stopQueued,        \* per session: the recorder's stop event is queued
    stopCalls,         \* per session: number of MediaRecorder.stop() calls
    timer,             \* per session: the setInterval timer and its closure
    ctxOpen,           \* per session: the AudioContext is open
    log,               \* per session: the calls made to the parent, in order
    ticksLeft,         \* interval callbacks the model still allows
    faultsLeft,        \* failures the environment may still cause
    app                \* the parent: whether it is App, and App's stream state

vars == <<state, mediaRecorderRef, audioChunksRef, streamRef, vadIntervalRef,
          audioContextRef, isSupported, useVad, vadSilenceMs, disposed, nStarts,
          acq, trackLive, rec, stopQueued, stopCalls, timer, ctxOpen, log,
          ticksLeft, faultsLeft, app>>

props == <<isSupported, useVad, vadSilenceMs>>

\* ---- helpers -------------------------------------------------------------
RECURSIVE Sum(_)
Sum(seq) == IF seq = <<>> THEN 0 ELSE Head(seq) + Sum(Tail(seq))

\* onStateChange(v), onAudioReady(blob, file), onError(err)
StateChange(v) == [kind |-> v, blob |-> <<>>]
\* onAudioReady with a Blob built from an emptied buffer
AudioReadyEmpty(b) == [kind |-> "audio", blob |-> <<>>]
AudioReady(b) == [kind |-> "audio", blob |-> b]
ErrorCb == [kind |-> "onError", blob |-> <<>>]

\* a handler of session s makes the calls ev
Emit(lg, s, ev) == [lg EXCEPT ![s] = @ \o ev]

\* setState: React ignores state updates of an unmounted component
SetState(v) == IF disposed THEN state ELSE v

\* streamRef.current?.getTracks().forEach(track => track.stop())
StopTracks(live, ref) == [s \in Sessions |-> IF s = ref THEN FALSE ELSE live[s]]

\* a timer that is not scheduled; clearInterval destroys the callback's closure
NoTimer == [active |-> FALSE, silentFrames |-> 0, elapsedMs |-> 0]
\* window.clearInterval(vadIntervalRef.current)
ClearInterval(tm, ref) == [s \in Sessions |-> IF s = ref THEN NoTimer ELSE tm[s]]
\* audioContextRef.current.close()
CloseContext(open, ref) == [s \in Sessions |-> IF s = ref THEN FALSE ELSE open[s]]

\* the frame count taken with the period truncated to whole milliseconds
requiredSilenceFramesWholeMs(ms) == ms \div TickMs

\* Math.round((vadSilenceSeconds * 1000) / (1000 / 45))
requiredSilenceFrames(ms) == (ms * 45 + 500) \div 1000

\* sum of (dataArray[i] - 128)^2 over a buffer whose samples all deviate by a
SumSquares(a) == fftSize * a * a
\* rms / bufferLength, the mean square (exact for such a buffer)
MeanSquare(a) == SumSquares(a) \div fftSize
\* rms < silenceThreshold, where rms = Math.sqrt(rms / bufferLength) / 128:
\* both sides squared and scaled by 128^2 * 1000^2
IsSilent(a) ==
    MeanSquare(a) * 1000 * 1000 < silenceThreshold * silenceThreshold * 128 * 128
\* rms > speechThreshold
IsSpeech(a) ==
    MeanSquare(a) * 1000 * 1000 > speechThreshold * speechThreshold * 128 * 128

\* the update with one threshold: whatever is not silent resets the count
nextSilentFramesOneThreshold(n, a) == IF IsSilent(a) THEN n + 1 ELSE 0

\* the hysteresis update of silentFrames
nextSilentFrames(n, a) ==
    IF IsSilent(a) THEN n + 1
    ELSE IF IsSpeech(a) THEN 0
    ELSE n

\* the stop condition met by requiredSilenceFrames silent frames
shouldStopAtRequired(n, ms, el) ==
    n >= requiredSilenceFrames(ms) /\ el > minRecordingMs

\* the stop condition without its test of the recording's age
shouldStopNoMinimum(n, ms, el) == n > requiredSilenceFrames(ms)

\* silentFrames > requiredSilenceFrames && Date.now() - recordingStart > minRecordingMs
shouldStop(n, ms, el) == n > requiredSilenceFrames(ms) /\ el > minRecordingMs

\* ---- the parent component -------------------------------------------------
\* App's state when it mounts: stream is null (0), no getUserMedia call made.
\* acq[s]: the stream App asks for on the 'recording' of session s; cap[s]:
\* the value of stream in the handleStateChange that session s calls, the
\* one of the render in which the session was started.  With isParent unset
\* the parent's handlers do nothing.
AppInit(isApp) ==
    [isParent |-> isApp,
     stream |-> 0,
     acq |-> [s \in Sessions |-> "none"],
     cap |-> [s \in Sessions |-> 0]]

\* stream.getTracks().forEach(track => { if live, track.stop() })
AppStopTracks(streams, c) ==
    [s \in Sessions |->
        IF s = c /\ streams[s] = "live" THEN "stopped" ELSE streams[s]]

\* one call of handleStateChange, handleAudioReady or handleError made by
\* session s, in a closure where stream is c
AppHandle(a, c, s, ev) ==
    IF ev.kind = "recording"
    THEN IF c = 0 THEN [a EXCEPT !.acq[s] = "pending"] ELSE a
    ELSE IF ev.kind \in {"idle", "finalizing", "completed", "error"}
    THEN [a EXCEPT !.acq = IF c # 0 THEN AppStopTracks(a.acq, c) ELSE a.acq,
                   !.stream = 0]
    ELSE [a EXCEPT !.stream = 0]

RECURSIVE AppHandleAll(_, _, _, _)
AppHandleAll(a, c, s, evs) ==
    IF evs = <<>> THEN a
    ELSE AppHandleAll(AppHandle(a, c, s, Head(evs)), c, s, Tail(evs))

\* the parent's handlers run inside the step that calls them; a step that
\* starts a session takes the handlers of the current render
AppHandles ==
    LET emitting == {s \in Sessions : Len(log'[s]) > Len(log[s])} IN
    IF ~app.isParent \/ emitting = {}
    THEN app' = app
    ELSE LET s == CHOOSE x \in emitting : TRUE
             c == IF nStarts' # nStarts THEN app.stream ELSE app.cap[s]
             evs == SubSeq(log'[s], Len(log[s]) + 1, Len(log'[s]))
         IN app' = AppHandleAll([app EXCEPT !.cap[s] = c], c, s, evs)

Init ==
    /\ state = "idle"
    /\ mediaRecorderRef = 0
    /\ audioChunksRef = <<>>
    /\ streamRef = 0
    /\ vadIntervalRef = 0
    /\ audioContextRef = 0
    /\ isSupported \in BOOLEAN
    /\ useVad \in BOOLEAN
    /\ vadSilenceMs \in SilenceMsChoices
    /\ disposed = FALSE
    /\ nStarts = 0
    /\ acq = [s \in Sessions |-> "none"]
    /\ trackLive = [s \in Sessions |-> FALSE]
    /\ rec = [s \in Sessions |-> "none"]
    /\ stopQueued = [s \in Sessions |-> FALSE]
    /\ stopCalls = [s \in Sessions |-> 0]
    /\ timer = [s \in Sessions |-> NoTimer]
    /\ ctxOpen = [s \in Sessions |-> FALSE]
    /\ log = [s \in Sessions |-> <<>>]
    /\ ticksLeft = MaxTicks
    /\ faultsLeft = MaxFaults
    /\ app = AppInit(FALSE)

\* ---- stopRecording -------------------------------------------------------
\* the guard without its test of the recorder's state
recorderActiveNoStateTest(r) == r # 0

\* mediaRecorderRef.current && mediaRecorderRef.current.state !== 'inactive'
recorderActive(r) == r # 0 /\ rec[r] # "inactive"

\* stopRecording().  Nothing in its try block can throw (clearInterval and
\* close() do not, and stop() is only called on an active recorder), so the
\* catch block is unreachable and emits nothing.
\* MediaRecorder.stop() makes the recorder inactive at once and queues the
\* stop event that runs onstop.  tm is the timer table the caller leaves.
stopRecording(tm) ==
    /\ timer' = ClearInterval(tm, vadIntervalRef)
    /\ vadIntervalRef' = 0
    /\ ctxOpen' = CloseContext(ctxOpen, audioContextRef)
    /\ audioContextRef' = 0
    /\ IF recorderActive(mediaRecorderRef)
       THEN /\ rec' = [rec EXCEPT ![mediaRecorderRef] = "inactive"]
            /\ stopQueued' = [stopQueued EXCEPT ![mediaRecorderRef] = TRUE]
            /\ stopCalls' = [stopCalls EXCEPT ![mediaRecorderRef] = @ + 1]
       ELSE UNCHANGED <<rec, stopQueued, stopCalls>>

\* ---- the button ----------------------------------------------------------
\* the first branch of onClick taken in state recording as well
clickStartsWhileRecording(st) == st \in {"idle", "completed", "recording"}

\* onClick: state === 'idle' || state === 'completed'
clickStarts(st) == st \in {"idle", "completed"}
\* onClick: else if (state === 'recording')
clickStops(st) == st = "recording"

\* startRecording's first test taken as never true
unsupportedNever == FALSE

\* startRecording: if (!isSupported)
unsupported == ~isSupported

\* onClick, first branch: setState('idle'); onStateChange('idle');
\* startRecording() up to its return (unsupported) or its await.
ClickStart ==
    /\ ~disposed
    /\ clickStarts(state)
    /\ nStarts < MaxSessions
    /\ LET s == nStarts + 1
           ev == IF unsupported
                 THEN <<StateChange("idle"), StateChange("error"), ErrorCb>>
                 ELSE <<StateChange("idle")>>
       IN
       /\ nStarts' = s
       /\ acq' = [acq EXCEPT ![s] = IF unsupported THEN "unsupported"
                                    ELSE "pending"]
       /\ state' = IF unsupported THEN "error" ELSE "idle"
       /\ log' = Emit(log, s, ev)
    /\ UNCHANGED <<mediaRecorderRef, audioChunksRef, streamRef, vadIntervalRef,
                   audioContextRef, props, disposed, trackLive, rec, stopQueued,
                   stopCalls, timer, ctxOpen, ticksLeft, faultsLeft>>
    /\ AppHandles

\* onClick, second branch: stopRecording().  The button is disabled in
\* finalizing and error, and onClick does nothing there.
ClickStop ==
    /\ ~disposed
    /\ ~clickStarts(state)
    /\ clickStops(state)
    /\ stopRecording(timer)
    /\ UNCHANGED <<state, mediaRecorderRef, audioChunksRef, streamRef, props,
                   disposed, nStarts, acq, trackLive, log, ticksLeft,
                   faultsLeft>>
    /\ AppHandles

\* ---- startRecording after the await ---------------------------------------
\* The getUserMedia promise of session s settles and the rest of
\* startRecording runs.  outcome: "denied" the promise rejects; "ctor" new
\* MediaRecorder throws; "recstart" mediaRecorder.start() throws; "ok" none
\* of these.  vad: "ctx" new AudioContext() throws; "graph" a later statement
\* of the VAD try block throws; "ok" neither.
Settle(s) ==
    /\ acq[s] = "pending"
    /\ \E outcome \in {"denied", "ctor", "recstart", "ok"},
          vad \in {"ok", "ctx", "graph"} :
       LET granted == outcome # "denied"
           constructed == outcome \in {"recstart", "ok"}
           started == outcome = "ok"
           \* the VAD block runs after both branches of the inner try
           reachesVad == constructed /\ useVad
           vadFails == reachesVad /\ vad # "ok"
           vadRuns == reachesVad /\ vad = "ok"
           ctxMade == reachesVad /\ vad \in {"ok", "graph"}
           sref == IF granted THEN s ELSE streamRef
           acquired == IF granted THEN [trackLive EXCEPT ![s] = TRUE]
                       ELSE trackLive
           ev == (IF started THEN <<StateChange("recording")>>
                  ELSE <<StateChange("idle"), ErrorCb>>)
                 \o (IF vadFails THEN <<StateChange("error"), ErrorCb>>
                     ELSE <<>>)
           faults == (IF started THEN 0 ELSE 1) + (IF vadFails THEN 1 ELSE 0)
       IN
       /\ reachesVad \/ vad = "ok"
       /\ faults <= faultsLeft
       /\ faultsLeft' = faultsLeft - faults
       /\ streamRef' = sref
       /\ trackLive' = IF started THEN acquired ELSE StopTracks(acquired, sref)
       /\ mediaRecorderRef' = IF constructed THEN s ELSE mediaRecorderRef
       /\ audioChunksRef' = IF constructed THEN <<>> ELSE audioChunksRef
       /\ rec' = IF started THEN [rec EXCEPT ![s] = "recording"]
                 ELSE IF constructed THEN [rec EXCEPT ![s] = "inactive"]
                 ELSE rec
       /\ audioContextRef' = IF ctxMade THEN s ELSE audioContextRef
       /\ ctxOpen' = IF ctxMade THEN [ctxOpen EXCEPT ![s] = TRUE] ELSE ctxOpen
       /\ vadIntervalRef' = IF vadRuns THEN s ELSE vadIntervalRef
       /\ timer' = IF vadRuns
                   THEN [timer EXCEPT ![s] = [active |-> TRUE,
                                              silentFrames |-> 0,
                                              elapsedMs |-> 0]]
                   ELSE timer
       /\ state' = SetState(IF vadFails THEN "error"
                            ELSE IF started THEN "recording" ELSE "idle")
       /\ log' = Emit(log, s, ev)
    /\ acq' = [acq EXCEPT ![s] = "settled"]
    /\ UNCHANGED <<props, disposed, nStarts, stopQueued, stopCalls, ticksLeft>>
    /\ AppHandles

\* ---- MediaRecorder events ------------------------------------------------
\* mediaRecorder.ondataavailable of session s's recorder, with event.data
\* of the given size
Deliver(s, size) ==
    /\ rec[s] = "recording" \/ stopQueued[s]
    /\ audioChunksRef' = IF size > 0 THEN Append(audioChunksRef, size)
                         ELSE audioChunksRef
    /\ UNCHANGED <<state, mediaRecorderRef, streamRef, vadIntervalRef,
                   audioContextRef, props, disposed, nStarts, acq, trackLive,
                   rec, stopQueued, stopCalls, timer, ctxOpen, log,
                   ticksLeft, faultsLeft>>
    /\ AppHandles

\* a chunk of any size, while the buffer holds fewer than MaxChunks
OnDataAvailable(s) ==
    /\ Len(audioChunksRef) < MaxChunks
    /\ \E size \in ChunkSizes : Deliver(s, size)

\* mediaRecorder.onstop of session s's recorder
OnStop(s) ==
    /\ stopQueued[s]
    /\ stopQueued' = [stopQueued EXCEPT ![s] = FALSE]
    /\ log' = Emit(log, s, <<StateChange("finalizing"),
                              AudioReady(audioChunksRef),
                              StateChange("completed")>>)
    /\ state' = SetState("completed")
    /\ audioChunksRef' = <<>>
    /\ trackLive' = StopTracks(trackLive, streamRef)
    /\ streamRef' = 0
    /\ UNCHANGED <<mediaRecorderRef, vadIntervalRef, audioContextRef, props,
                   disposed, nStarts, acq, rec, stopCalls, timer, ctxOpen,
                   ticksLeft, faultsLeft>>
    /\ AppHandles

\* ---- the VAD interval callback -------------------------------------------
\* One run of the setInterval callback of session s, d milliseconds after
\* the previous one, on a buffer of amplitude a; throws:
\* getByteTimeDomainData (or the analysis) throws.
TickRun(s, a, d, throws) ==
    /\ timer[s].active
    /\ ticksLeft > 0
    /\ ticksLeft' = ticksLeft - 1
    /\ LET n == nextSilentFrames(timer[s].silentFrames, a)
           el == timer[s].elapsedMs + d
       IN
       IF throws
       THEN /\ faultsLeft > 0
            /\ faultsLeft' = faultsLeft - 1
            /\ timer' = [timer EXCEPT ![s].elapsedMs = el]
            /\ state' = SetState("error")
            /\ log' = Emit(log, s, <<StateChange("error"), ErrorCb>>)
            /\ UNCHANGED <<vadIntervalRef, ctxOpen, audioContextRef, rec,
                           stopQueued, stopCalls>>
       ELSE LET tm == [timer EXCEPT ![s].elapsedMs = el,
                                    ![s].silentFrames = n] IN
            /\ UNCHANGED <<state, log, faultsLeft>>
            /\ IF shouldStop(n, vadSilenceMs, el)
               THEN stopRecording(tm)
               ELSE /\ timer' = tm
                    /\ UNCHANGED <<vadIntervalRef, ctxOpen, audioContextRef,
                                   rec, stopQueued, stopCalls>>
    /\ UNCHANGED <<mediaRecorderRef, audioChunksRef, streamRef, props, disposed,
                   nStarts, acq, trackLive>>
    /\ AppHandles

\* a run of the callback after any delay, on any buffer
Tick(s) ==
    \E a \in Amplitudes, d \in Delays, throws \in BOOLEAN : TickRun(s, a, d, throws)

\* ---- unmount -------------------------------------------------------------
\* the cleanup function returned by useEffect
Dispose ==
    /\ ~disposed
    /\ disposed' = TRUE
    /\ trackLive' = StopTracks(trackLive, streamRef)
    /\ streamRef' = 0
    /\ timer' = ClearInterval(timer, vadIntervalRef)
    /\ vadIntervalRef' = 0
    /\ ctxOpen' = CloseContext(ctxOpen, audioContextRef)
    /\ audioContextRef' = 0
    /\ UNCHANGED <<state, mediaRecorderRef, audioChunksRef, props, nStarts, acq,
                   rec, stopQueued, stopCalls, log, ticksLeft, faultsLeft>>
    /\ AppHandles

Next ==
    \/ ClickStart
    \/ ClickStop
    \/ \E s \in Sessions : Settle(s)
    \/ \E s \in Sessions : OnDataAvailable(s)
    \/ \E s \in Sessions : OnStop(s)
    \/ \E s \in Sessions : Tick(s)
    \/ Dispose

Spec == Init /\ [][Next]_vars

\* ---- one session with the detector attached ------------------------------
\* The component is mounted where capture is supported, with useVad set, and
\* the user starts one recording; the interval callback runs at its nominal
\* period of 1000 / 45 ms, the shortest time in which silentFrames can grow.
InitVad ==
    /\ state = "idle"
    /\ mediaRecorderRef = 0
    /\ audioChunksRef = <<>>
    /\ streamRef = 0
    /\ vadIntervalRef = 0
    /\ audioContextRef = 0
    /\ isSupported = TRUE
    /\ useVad = TRUE
    /\ vadSilenceMs \in VadSilenceMsChoices
    /\ disposed = FALSE
    /\ nStarts = 0
    /\ acq = [s \in Sessions |-> "none"]
    /\ trackLive = [s \in Sessions |-> FALSE]
    /\ rec = [s \in Sessions |-> "none"]
    /\ stopQueued = [s \in Sessions |-> FALSE]
    /\ stopCalls = [s \in Sessions |-> 0]
    /\ timer = [s \in Sessions |-> NoTimer]
    /\ ctxOpen = [s \in Sessions |-> FALSE]
    /\ log = [s \in Sessions |-> <<>>]
    /\ ticksLeft = VadTicks
    /\ faultsLeft = MaxFaults
    /\ app = AppInit(FALSE)

\* the first click on the button
FirstClick == nStarts = 0 /\ ClickStart

\* a run of the callback one period after the previous one
NominalTick(s) ==
    \E a \in Amplitudes, throws \in BOOLEAN : TickRun(s, a, TickMs, throws)

NextVad ==
    \/ FirstClick
    \/ ClickStop
    \/ \E s \in Sessions : Settle(s)
    \/ \E s \in Sessions : OnDataAvailable(s)
    \/ \E s \in Sessions : OnStop(s)
    \/ \E s \in Sessions : NominalTick(s)
    \/ Dispose

SpecVad == InitVad /\ [][NextVad]_vars

\* ---- recordings without the detector ---------------------------------------
\* The component is mounted where capture is supported, with useVad unset;
\* the recorder of session s delivers chunks of s * ChunkUnit bytes, so that
\* a chunk's size tells which recorder produced it.
ChunkSizeOf(s) == s * ChunkUnit

InitChunks ==
    /\ state = "idle"
    /\ mediaRecorderRef = 0
    /\ audioChunksRef = <<>>
    /\ streamRef = 0
    /\ vadIntervalRef = 0
    /\ audioContextRef = 0
    /\ isSupported = TRUE
    /\ useVad = FALSE
    /\ vadSilenceMs \in SilenceMsChoices
    /\ disposed = FALSE
    /\ nStarts = 0
    /\ acq = [s \in Sessions |-> "none"]
    /\ trackLive = [s \in Sessions |-> FALSE]
    /\ rec = [s \in Sessions |-> "none"]
    /\ stopQueued = [s \in Sessions |-> FALSE]
    /\ stopCalls = [s \in Sessions |-> 0]
    /\ timer = [s \in Sessions |-> NoTimer]
    /\ ctxOpen = [s \in Sessions |-> FALSE]
    /\ log = [s \in Sessions |-> <<>>]
    /\ ticksLeft = MaxTicks
    /\ faultsLeft = MaxFaults
    /\ app = AppInit(FALSE)

\* ondataavailable with a chunk of the recorder's own size
OwnChunk(s) ==
    /\ Len(audioChunksRef) < MaxChunks
    /\ Deliver(s, ChunkSizeOf(s))

NextChunks ==
    \/ ClickStart
    \/ ClickStop
    \/ \E s \in Sessions : Settle(s)
    \/ \E s \in Sessions : OwnChunk(s)
    \/ \E s \in Sessions : OnStop(s)
    \/ Dispose

SpecChunks == InitChunks /\ [][NextChunks]_vars

\* ---- recordings fed the chunks of the scenario ----------------------------
\* The component is mounted where capture is supported, with useVad unset;
\* a recorder delivers chunks of 10, 20 and 15 bytes, in this order, each
\* after the ones the buffer holds.
ScenarioChunks == <<10, 20, 15>>

InitStop ==
    /\ state = "idle"
    /\ mediaRecorderRef = 0
    /\ audioChunksRef = <<>>
    /\ streamRef = 0
    /\ vadIntervalRef = 0
    /\ audioContextRef = 0
    /\ isSupported = TRUE
    /\ useVad = FALSE
    /\ vadSilenceMs \in SilenceMsChoices
    /\ disposed = FALSE
    /\ nStarts = 0
    /\ acq = [s \in Sessions |-> "none"]
    /\ trackLive = [s \in Sessions |-> FALSE]
    /\ rec = [s \in Sessions |-> "none"]
    /\ stopQueued = [s \in Sessions |-> FALSE]
    /\ stopCalls = [s \in Sessions |-> 0]
    /\ timer = [s \in Sessions |-> NoTimer]
    /\ ctxOpen = [s \in Sessions |-> FALSE]
    /\ log = [s \in Sessions |-> <<>>]
    /\ ticksLeft = MaxTicks
    /\ faultsLeft = MaxFaults
    /\ app = AppInit(FALSE)

\* ondataavailable with the next chunk of the scenario
ScenarioChunk(s) ==
    /\ Len(audioChunksRef) < Len(ScenarioChunks)
    /\ Deliver(s, ScenarioChunks[Len(audioChunksRef) + 1])

NextStop ==
    \/ ClickStart
    \/ ClickStop
    \/ \E s \in Sessions : Settle(s)
    \/ \E s \in Sessions : ScenarioChunk(s)
    \/ \E s \in Sessions : OnStop(s)
    \/ Dispose

SpecStop == InitStop /\ [][NextStop]_vars

\* MediaRecorder.stop() queues a task that fires the stop event, and the
\* browser runs every queued task
FairSpecStop == SpecStop /\ \A s \in Sessions : WF_vars(OnStop(s))

\* ---- the component under App ----------------------------------------------
\* App renders <RecordButton ... useVad vadSilenceSeconds={5} /> with its
\* handlers, where capture is supported.
InitApp ==
    /\ state = "idle"
    /\ mediaRecorderRef = 0
    /\ audioChunksRef = <<>>
    /\ streamRef = 0
    /\ vadIntervalRef = 0
    /\ audioContextRef = 0
    /\ isSupported = TRUE
    /\ useVad = TRUE
    /\ vadSilenceMs = AppSilenceMs
    /\ disposed = FALSE
    /\ nStarts = 0
    /\ acq = [s \in Sessions |-> "none"]
    /\ trackLive = [s \in Sessions |-> FALSE]
    /\ rec = [s \in Sessions |-> "none"]
    /\ stopQueued = [s \in Sessions |-> FALSE]
    /\ stopCalls = [s \in Sessions |-> 0]
    /\ timer = [s \in Sessions |-> NoTimer]
    /\ ctxOpen = [s \in Sessions |-> FALSE]
    /\ log = [s \in Sessions |-> <<>>]
    /\ ticksLeft = MaxTicks
    /\ faultsLeft = MaxFaults
    /\ app = AppInit(TRUE)

\* App's getUserMedia promise of session k settles: .then(setStream) when
\* it resolves, nothing when it rejects
AppStreamSettles(k) ==
    /\ app.isParent
    /\ app.acq[k] = "pending"
    /\ \E resolves \in BOOLEAN :
          app' = IF resolves
                 THEN [app EXCEPT !.acq[k] = "live", !.stream = k]
                 ELSE [app EXCEPT !.acq[k] = "rejected"]
    /\ UNCHANGED <<state, mediaRecorderRef, audioChunksRef, streamRef,
                   vadIntervalRef, audioContextRef, props, disposed, nStarts,
                   acq, trackLive, rec, stopQueued, stopCalls, timer, ctxOpen,
                   log, ticksLeft, faultsLeft>>

NextApp ==
    \/ ClickStart
    \/ ClickStop
    \/ \E s \in Sessions : Settle(s)
    \/ \E s \in Sessions : OnDataAvailable(s)
    \/ \E s \in Sessions : OnStop(s)
    \/ \E s \in Sessions : Tick(s)
    \/ \E k \in Sessions : AppStreamSettles(k)
    \/ Dispose

SpecApp == InitApp /\ [][NextApp]_vars

\* ---- what the claims speak about ------------------------------------------
\* number of notifications of kind k made for session s
Count(s, k) == Cardinality({i \in DOMAIN log[s] : log[s][i].kind = k})
\* the notifications the current step makes for session s
New(s) == SubSeq(log'[s], Len(log[s]) + 1, Len(log'[s]))
CountIn(seq, k) == Cardinality({i \in DOMAIN seq : seq[i].kind = k})
\* the current step is the continuation of session s's startRecording
Settles(s) == acq[s] = "pending" /\ acq'[s] = "settled"
\* the current step is a run of session s's interval callback that failed
FailingTick(s) == /\ timer[s].active
                  /\ ticksLeft' = ticksLeft - 1
                  /\ CountIn(New(s), "onError") > 0
\* the current step is the unmount
Disposes == ~disposed /\ disposed'
\* the current step is the continuation of session s's startRecording after
\* getUserMedia resolved, and nothing in it failed
Resolves(s) == Settles(s) /\ faultsLeft' = faultsLeft
\* the current step is a run of session s's interval callback: its closure's
\* clock advanced, or the run cleared its own interval
Ticked(s) ==
    /\ timer[s].active
    /\ ticksLeft' = ticksLeft - 1
    /\ \/ timer'[s].elapsedMs > timer[s].elapsedMs
       \/ /\ vadIntervalRef = s
          /\ ~timer'[s].active
          /\ \A r \in Sessions \ {s} : timer'[r] = timer[r]
\* the current step calls MediaRecorder.stop()
SignalsStop == \E r \in Sessions : stopCalls'[r] = stopCalls[r] + 1
\* the current step is a run of session s's interval callback that called
\* stopRecording, seen by what stopRecording did
Stops(s) == Ticked(s) /\ (SignalsStop \/ vadIntervalRef' # vadIntervalRef)
\* every run of session s's interval callback so far, at the nominal period,
\* counted a silent frame
AllSilent(s) == timer[s].silentFrames * TickMs = timer[s].elapsedMs
\* number of runs of the interval callback so far in the runs of one session
TicksRun == VadTicks - ticksLeft

\* C1: the device stream and the encoder are both held exactly when state is
\* recording or finalizing, and both are absent in idle, completed and error.
C1_HeldIffRecordingOrFinalizing ==
    /\ (streamRef # 0 /\ mediaRecorderRef # 0)
          <=> state \in {"recording", "finalizing"}
    /\ state \in {"idle", "completed", "error"}
          => (streamRef = 0 /\ mediaRecorderRef = 0)

\* C2: whenever a step makes the state completed or error for a session, no
\* track of that session's stream is live after the step.
C2_NoLiveTrackAfterTerminal ==
    [][\A s \in Sessions :
          (state' \in {"completed", "error"}
             /\ (CountIn(New(s), "completed") > 0 \/ CountIn(New(s), "error") > 0))
          => ~trackLive'[s]]_vars

\* C3: in every session onAudioReady is called only after that session's
\* 'completed' state-change has been emitted.
C3_ArtifactAfterCompleted ==
    \A s \in Sessions : \A i \in DOMAIN log[s] :
        log[s][i].kind = "audio"
           => \E j \in 1..(i - 1) : log[s][j].kind = "completed"

\* C4: when startRecording fails (getUserMedia rejects, new MediaRecorder
\* throws or start() throws), the state becomes error and the 'error'
\* state-change is emitted.
C4_StartFailureEntersError ==
    [][\A s \in Sessions :
          (~disposed /\ Settles(s) /\ rec'[s] # "recording")
          => (state' = "error" /\ CountIn(New(s), "error") > 0)]_vars

\* C5: at most one device acquisition is pending or held at any time.
C5_OneAcquisitionAtATime ==
    Cardinality({s \in Sessions : acq[s] = "pending" \/ trackLive[s]}) <= 1

\* C6: an acquisition that resolves after the unmount is discarded: no stream
\* is retained, no encoder started, no timer created, nothing emitted.
C6_ResolveAfterDisposeDiscarded ==
    [][\A s \in Sessions :
          (disposed /\ Resolves(s))
          => /\ streamRef' = streamRef
             /\ ~trackLive'[s]
             /\ rec'[s] # "recording"
             /\ ~timer'[s].active
             /\ log' = log]_vars

\* C7: an unmount in state recording releases the tracks, the interval and
\* the AudioContext of the session being recorded (the one whose encoder
\* mediaRecorderRef holds) at once, and afterwards no Artifact and no
\* 'completed' is ever emitted for that session.
C7_DisposeWhileRecording ==
    [][\A s \in Sessions :
          /\ (Disposes /\ state = "recording" /\ mediaRecorderRef = s)
             => (~trackLive'[s] /\ ~timer'[s].active /\ ~ctxOpen'[s])
          /\ (disposed /\ state = "recording" /\ mediaRecorderRef = s)
             => (CountIn(New(s), "audio") = 0
                   /\ CountIn(New(s), "completed") = 0)
      ]_vars

\* C8: every failure is notified exactly once, by one onError and one 'error'
\* state-change, and a failing run of the interval callback is not followed
\* by further notifying runs: the interval is no longer scheduled after it.
C8_FailureNotifiedOnce ==
    [][\A s \in Sessions :
          /\ CountIn(New(s), "onError") = CountIn(New(s), "error")
          /\ FailingTick(s) => ~timer'[s].active
      ]_vars

\* C9: in every session the encoder is signalled to stop at most once and
\* 'finalizing', 'completed' and the Artifact are each emitted at most once,
\* whatever the interleaving of clicks and interval callbacks.
C9_StopIdempotent ==
    \A s \in Sessions :
        /\ stopCalls[s] <= 1
        /\ Count(s, "finalizing") <= 1
        /\ Count(s, "completed") <= 1
        /\ Count(s, "audio") <= 1

\* with VAD on and the interval callback having run, a session whose encoder
\* was signalled to stop has completed and delivered its Artifact
C9_Witness ==
    \E s \in Sessions :
        /\ useVad /\ ticksLeft < MaxTicks
        /\ stopCalls[s] = 1
        /\ Count(s, "completed") = 1
        /\ Count(s, "audio") = 1

\* C10: a click while state is recording or finalizing starts nothing: no
\* getUserMedia call and no 'idle' or 'recording' state-change.
C10_ClickWhileRecordingStartsNothing ==
    [][(state \in {"recording", "finalizing"} /\ (ClickStart \/ ClickStop))
          => (nStarts' = nStarts /\ acq' = acq /\ log' = log)]_vars

\* with VAD off only a click stops the encoder: a click in state recording
\* has been handled
C10_Witness ==
    /\ ~useVad
    /\ state = "recording"
    /\ \E s \in Sessions : stopQueued[s] /\ nStarts = s

\* C11: after an error the controller still accepts a start request: in
\* state error (mounted, and a further session left to number) a click on the
\* button starts a new session.
C11_ErrorAcceptsStart ==
    (state = "error" /\ ~disposed /\ nStarts < MaxSessions) => ENABLED ClickStart

\* C12: a run of the interval callback that stops the recording happens more
\* than minRecordingMs after the recording started, whatever the samples and
\* whatever vadSilenceSeconds (also one reached long before minRecordingMs).
C12_NoStopBeforeMinimum ==
    [][\A s \in Sessions :
          Stops(s) => timer[s].elapsedMs + TickMs > minRecordingMs]_vars

\* with the short vadSilenceSeconds the detector has stopped the recording on
\* the first run after minRecordingMs
C12_Witness ==
    /\ vadSilenceMs = ShortSilenceMs
    /\ requiredSilenceFrames(vadSilenceMs) * TickMs < minRecordingMs
    /\ (TicksRun - 1) * TickMs <= minRecordingMs
    /\ TicksRun * TickMs > minRecordingMs
    /\ \E s \in Sessions : stopQueued[s] /\ ~timer[s].active /\ state = "recording"

\* C13 as stated: with vadSilenceSeconds = 3 and every sample silent, the
\* detector stops the recording when the silence counted from minRecordingMs
\* on has lasted 3000 ms, so not before minRecordingMs + 3000 ms.
C13_StopAfterSilenceSinceMinimum ==
    [][\A s \in Sessions :
          (vadSilenceMs = LongSilenceMs /\ AllSilent(s) /\ Ticked(s) /\ SignalsStop)
          => timer[s].elapsedMs + TickMs >= minRecordingMs + vadSilenceMs]_vars

\* C13, amended: with vadSilenceSeconds = 3 and every sample silent, the
\* detector stops the recording on the first run whose count of silent frames
\* since the start exceeds vadSilenceSeconds * 45 rounded (the 136th run,
\* about 3 s after the start): after minRecordingMs, and before
\* minRecordingMs + 3000 ms, the silence before minRecordingMs counting too.
C13_StopAtFirstRunOverRequired ==
    [][\A s \in Sessions :
          (vadSilenceMs = LongSilenceMs /\ AllSilent(s) /\ Ticked(s))
          => LET n == timer[s].silentFrames + 1
                 el == timer[s].elapsedMs + TickMs
             IN /\ Stops(s)
                   => /\ n * 1000 > vadSilenceMs * 45 + 500
                      /\ (n - 1) * 1000 <= vadSilenceMs * 45 + 500
                      /\ el > minRecordingMs
                      /\ el < minRecordingMs + vadSilenceMs
                /\ (~Stops(s) /\ timer'[s].silentFrames = n)
                   => n * 1000 <= vadSilenceMs * 45 + 500
      ]_vars

\* with vadSilenceSeconds = 3 the detector has stopped the recording on the
\* run after requiredSilenceFrames silent ones
C13_Witness ==
    /\ vadSilenceMs = LongSilenceMs
    /\ TicksRun = requiredSilenceFrames(vadSilenceMs) + 1
    /\ TicksRun * TickMs < minRecordingMs + vadSilenceMs
    /\ \E s \in Sessions : stopQueued[s] /\ ~timer[s].active /\ state = "recording"

\* C14 as stated: after minRecordingMs, requiredSilenceFrames consecutive
\* silent samples suffice for the stop; so while the recording goes on, a
\* detector still scheduled after minRecordingMs that has seen silent samples
\* only has seen fewer than that.
C14_RequiredFramesSuffice ==
    \A s \in Sessions :
        (/\ timer[s].active /\ rec[s] = "recording" /\ state = "recording"
         /\ AllSilent(s) /\ timer[s].elapsedMs > minRecordingMs)
        => timer[s].silentFrames < requiredSilenceFrames(vadSilenceMs)

\* C14, amended: after minRecordingMs the detector stops the recording on
\* the first run at which silentFrames exceeds requiredSilenceFrames, so
\* requiredSilenceFrames + 1 silent samples since the last loud one are
\* needed and requiredSilenceFrames are not enough; a run on a sample above
\* speechThreshold never stops the recording and leaves the count at 0.
C14_StopWhenCountExceedsRequired ==
    [][\A s \in Sessions :
          /\ Stops(s)
             => /\ timer[s].silentFrames >= requiredSilenceFrames(vadSilenceMs)
                /\ timer[s].elapsedMs + TickMs > minRecordingMs
          /\ (Ticked(s) /\ ~Stops(s) /\ ~FailingTick(s))
             => /\ timer'[s].active
                /\ ~(/\ timer'[s].silentFrames > requiredSilenceFrames(vadSilenceMs)
                     /\ timer'[s].elapsedMs > minRecordingMs)
          /\ \A a \in Amplitudes :
                (IsSpeech(a) /\ TickRun(s, a, TickMs, FALSE))
                => (~Stops(s) /\ timer'[s].active /\ timer'[s].silentFrames = 0)
      ]_vars

\* a loud sample on the first run after minRecordingMs has reset the count,
\* and the detector has stopped the recording requiredSilenceFrames + 1 runs
\* later
C14_Witness ==
    /\ vadSilenceMs = ShortSilenceMs
    /\ TicksRun = (minRecordingMs \div TickMs) + 1
                     + requiredSilenceFrames(vadSilenceMs) + 1
    /\ \E s \in Sessions : stopQueued[s] /\ ~timer[s].active /\ state = "recording"

\* C15: in a session the detector decides to stop at most once and is inert
\* afterwards: after a run of its interval callback that called
\* stopRecording, and after a click that stopped the session's recording, the
\* session's interval is no longer scheduled.
C15_DetectorInertAfterStop ==
    [][\A s \in Sessions :
          /\ Stops(s) => ~timer'[s].active
          /\ (ClickStop /\ mediaRecorderRef = s) => ~timer'[s].active
      ]_vars

\* C16: the blob of a session's Artifact is made of the chunks that session's
\* recorder delivered, in the order of their arrival, so its length is the
\* sum of their lengths; and the chunk buffer is empty once it is built.
C16_ArtifactOfOwnChunks ==
    [][\A s \in Sessions : \A i \in DOMAIN New(s) :
          New(s)[i].kind = "audio"
          => /\ \A k \in DOMAIN New(s)[i].blob :
                   New(s)[i].blob[k] = ChunkSizeOf(s)
             /\ Sum(New(s)[i].blob) = Len(New(s)[i].blob) * ChunkSizeOf(s)
             /\ audioChunksRef' = <<>>
      ]_vars

\* C17: where capture is not supported, a start request moves the state to
\* error and reports the failure by the 'error' state-change and onError,
\* and no getUserMedia call is ever made, no recorder constructed and no
\* interval or AudioContext created.
C17_UnsupportedGoesToError ==
    ~isSupported
    => /\ \A s \in Sessions :
             /\ acq[s] \in {"none", "unsupported"}
             /\ rec[s] = "none"
             /\ ~trackLive[s] /\ ~timer[s].active /\ ~ctxOpen[s]
             /\ s <= nStarts
                => /\ state = "error"
                   /\ Count(s, "error") = 1
                   /\ Count(s, "onError") = 1
                   /\ Count(s, "recording") = 0
       /\ mediaRecorderRef = 0 /\ streamRef = 0
       /\ vadIntervalRef = 0 /\ audioContextRef = 0

\* a start has been requested where capture is not supported
C17_Witness ==
    ~isSupported /\ nStarts = 1 /\ acq[1] = "unsupported" /\ state = "error"

\* C18: a stop request in state recording makes the state finalizing when
\* the recorder is told to stop: while a recorder's stop event is queued, the
\* state is finalizing and 'finalizing' has been emitted for its session.
C18_FinalizingWhileStopQueued ==
    \A s \in Sessions :
        (stopQueued[s] /\ ~disposed)
        => (state = "finalizing" /\ Count(s, "finalizing") >= 1)

\* C19: when 'error' is emitted for a session, everything of that session
\* has been released: its recorder is not recording, its interval is not
\* scheduled and its AudioContext is not open.
C19_ErrorReleasesEverything ==
    [][\A s \in Sessions :
          CountIn(New(s), "error") > 0
          => (rec'[s] # "recording" /\ ~timer'[s].active /\ ~ctxOpen'[s])
      ]_vars

\* C20: error is terminal for its session: once 'error' has been emitted for
\* a session, no 'finalizing', no 'completed' and no Artifact is emitted for
\* it.
C20_NothingAfterError ==
    [][\A s \in Sessions :
          Count(s, "error") > 0
          => /\ CountIn(New(s), "finalizing") = 0
             /\ CountIn(New(s), "completed") = 0
             /\ CountIn(New(s), "audio") = 0
      ]_vars

\* C21: a stop request made in state recording is followed, when the
\* recorder's stop event is delivered, by 'finalizing', the Artifact and
\* 'completed', in this order and each exactly once in the session, and the
\* stop event is delivered eventually; the Artifact is built from the
\* buffered chunks, and in a session that ran alone and was fed chunks of 10,
\* 20 and 15 bytes before the stop its length is 45.
C21_StopThenFinalizingCompleted ==
    /\ [][\A s \in Sessions :
             (stopQueued[s] /\ ~stopQueued'[s])
             => /\ Len(New(s)) = 3
                /\ New(s)[1] = StateChange("finalizing")
                /\ New(s)[2].kind = "audio"
                /\ New(s)[3] = StateChange("completed")
                /\ CountIn(log'[s], "finalizing") = 1
                /\ CountIn(log'[s], "audio") = 1
                /\ CountIn(log'[s], "completed") = 1
                /\ New(s)[2].blob = audioChunksRef
                /\ nStarts = 1
                   => /\ New(s)[2].blob
                           = SubSeq(ScenarioChunks, 1, Len(New(s)[2].blob))
                      /\ Len(New(s)[2].blob) = Len(ScenarioChunks)
                         => Sum(New(s)[2].blob) = 45
         ]_vars
    /\ \A s \in Sessions :
          stopQueued[s] ~> (/\ Count(s, "finalizing") = 1
                            /\ Count(s, "audio") = 1
                            /\ Count(s, "completed") = 1)

\* the only session, with no failure and no unmount, was fed the three
\* chunks, stopped by a click, and has delivered an Artifact of 45 bytes
C21_Witness ==
    /\ nStarts = 1 /\ ~disposed /\ faultsLeft = MaxFaults /\ ~useVad
    /\ stopCalls[1] = 1
    /\ state = "completed"
    /\ Len(log[1]) = 5
    /\ log[1][3] = StateChange("finalizing")
    /\ log[1][4] = AudioReady(ScenarioChunks)
    /\ Sum(log[1][4].blob) = 45
    /\ log[1][5] = StateChange("completed")

\* C22: a run of the interval callback adds one to silentFrames when the
\* energy is below silenceThreshold, sets it to 0 when the energy is above
\* speechThreshold and leaves it as it is in between; a run that throws and
\* every other step leave it as it is, and it is 0 when the detector is
\* attached.  (The energy of a buffer of amplitude a is a / 128.)
C22_SilentFramesUpdate ==
    [][\A s \in Sessions :
          /\ \A a \in Amplitudes :
                (TickRun(s, a, TickMs, FALSE) /\ timer'[s].active)
                => timer'[s].silentFrames
                     = IF a * 1000 < silenceThreshold * 128
                       THEN timer[s].silentFrames + 1
                       ELSE IF a * 1000 > speechThreshold * 128
                       THEN 0
                       ELSE timer[s].silentFrames
          /\ (timer[s].active /\ timer'[s].active
                /\ (~Ticked(s) \/ FailingTick(s)))
             => timer'[s].silentFrames = timer[s].silentFrames
          /\ (~timer[s].active /\ timer'[s].active)
             => timer'[s].silentFrames = 0
      ]_vars

\* five runs of the callback have left a count of 2: it was incremented,
\* and also held or reset
C22_Witness ==
    \E s \in Sessions :
        /\ timer[s].active
        /\ timer[s].elapsedMs = 5 * TickMs
        /\ timer[s].silentFrames = 2
        /\ faultsLeft = MaxFaults

\* C23: while the state is idle or completed no interval is scheduled and no
\* AudioContext is open, and at most one interval is scheduled at any time.
C23_NoDetectorWhenIdle ==
    /\ state \in {"idle", "completed"}
          => \A s \in Sessions : ~timer[s].active /\ ~ctxOpen[s]
    /\ Cardinality({s \in Sessions : timer[s].active}) <= 1

\* C24: the stream App acquires for the visualizer is released once the
\* session has ended: when the state is idle, completed or error, no session
\* is being started, recorded or stopped and no getUserMedia promise of App
\* is pending, no stream acquired by App has a live track.
C24_AppStreamReleased ==
    (/\ app.isParent
     /\ state \in {"idle", "completed", "error"}
     /\ \A s \in Sessions :
           /\ acq[s] # "pending" /\ rec[s] # "recording" /\ ~stopQueued[s]
           /\ app.acq[s] # "pending")
    => \A k \in Sessions : app.acq[k] # "live"

====
